---- MODULE Spec2Model ----
(***************************************************************************)
(* Model of azure-security-monitor.py: one run of the command line tool.  *)
(* A run resolves the subscription id (az account show), then, depending   *)
(* on --format and the two flags, fetches the security recommendations     *)
(* (az advisor recommendation list) one or two times, normalizes them,     *)
(* aggregates a report and prints it.                                      *)
(*                                                                         *)
(* JSON values are tagged records.  Leaf values are [t, s] with t one of   *)
(* "null", "str", "num", "list"; the objects the code reaches into with    *)
(* .get() are [t |-> "obj", f |-> <function from keys to values>]; the     *)
(* top-level array of an answer is [t |-> "list", items |-> <sequence>].   *)
(* The timestamp of the report (datetime.now()) is not modelled.           *)
(***************************************************************************)
EXTENDS Integers, Sequences, FiniteSets, TLC

VARIABLES
    args,               \* argparse result: format and the two flags
    pc,                 \* position of the run in main()
    subscription_id,    \* AzureSecurityMonitor.subscription_id
    calls,              \* external process invocations made so far, in order
    outcome,            \* fetcher under test: what the external command answered
    fetched,            \* fetcher under test: what get_security_recommendations did
    recommendations,    \* `recommendations` of generate_security_report
    impact_counts,      \* dict of line 118, as a sequence of [k, v] in insertion order
    resource_type_counts, \* dict of line 124, same representation
    all_recs,           \* `all_recs` of the two view functions (lines 105, 110)
    report,             \* the dict of line 132
    data,               \* the list printed by the two json views (lines 212, 214)
    diagnostics,        \* "Error ..." lines printed so far
    printed,            \* what main() printed as its result
    exit_code           \* process exit status once pc = "exited"

vars == <<args, pc, subscription_id, calls, outcome, fetched, recommendations, impact_counts,
          resource_type_counts, all_recs, report, data, diagnostics, printed,
          exit_code>>

(***************************************************************************)
(* Bounds of the model.                                                    *)
(***************************************************************************)
\* every sequence over RawRecs of at most this length is a possible answer
MaxShort == 2
\* the patterned answers have up to this many records (above both caps)
MaxLong == 12

(***************************************************************************)
(* JSON values.                                                            *)
(***************************************************************************)
JNull == [t |-> "null", s |-> ""]
JStr(str) == [t |-> "str", s |-> str]
JNum == [t |-> "num", s |-> "7"]
JArr == [t |-> "list", s |-> "[]"]
JObj(fields) == [t |-> "obj", f |-> fields]
JList(seq) == [t |-> "list", items |-> seq]
EmptyDict == JObj([k \in {} |-> JNull])

\* dict.get(key, default); the caller has checked that obj is a dict
Get(obj, key, default) ==
    IF key \in DOMAIN obj.f THEN obj.f[key] ELSE default

\* x.get raises AttributeError unless x is a dict
HasGet(x) == x.t = "obj"

\* hash(x) raises TypeError for lists and dicts
Hashable(x) == x.t \in {"null", "str", "num"}

(***************************************************************************)
(* _check_automated_fix: the hard-coded lookup table (lines 85-99).        *)
(***************************************************************************)
AutomatedFixIds ==
    { "b14a3c4e-f6c8-4b21-9e3a-3c4b5f6e7a8b",
      "a1b2c3d4-e5f6-7890-abcd-ef1234567890",
      "c3d4e5f6-1234-5678-9abc-def123456789",
      "e5f6a7b8-9012-3456-7890-abc123456789",
      "f6a7b8c9-2345-6789-0123-456789abcdef",
      "a7b8c9d0-3456-7890-1234-56789abcdefg" }

\* mutant of check_automated_fix: the SQL Defender entry is missing from the table
check_automated_fix_partial(recommendation_type_id) ==
    /\ recommendation_type_id.t = "str"
    /\ recommendation_type_id.s \in
           AutomatedFixIds \ {"c3d4e5f6-1234-5678-9abc-def123456789"}

\* automated_fixes.get(recommendation_type_id, False), for a hashable argument;
\* a key that is no string equals none of the keys of the table
check_automated_fix(recommendation_type_id) ==
    /\ recommendation_type_id.t = "str"
    /\ recommendation_type_id.s \in AutomatedFixIds

(***************************************************************************)
(* _process_recommendations (lines 51-81).                                 *)
(***************************************************************************)
\* the body of the try block raises: a .get() on something that is no dict
\* (AttributeError) or the table lookup of an unhashable identifier (TypeError)
Raises(rec) ==
    IF ~HasGet(rec) THEN TRUE
    ELSE LET props == Get(rec, "properties", EmptyDict) IN
         IF ~HasGet(props) THEN TRUE
         ELSE \/ ~HasGet(Get(props, "resourceMetadata", EmptyDict))
              \/ ~HasGet(Get(props, "shortDescription", EmptyDict))
              \/ ~Hashable(Get(props, "recommendationTypeId", JStr("")))

\* the dict of lines 61-73, for a record that does not raise
processed_rec(rec) ==
    LET props == Get(rec, "properties", EmptyDict)
        metadata == Get(props, "resourceMetadata", EmptyDict)
        short_desc == Get(props, "shortDescription", EmptyDict)
    IN  [ id |-> Get(rec, "id", JStr("")),
          category |-> Get(props, "category", JStr("Unknown")),
          impact |-> Get(props, "impact", JStr("Unknown")),
          problem |-> Get(short_desc, "problem", JStr("No description available")),
          solution |-> Get(short_desc, "solution", JStr("No solution available")),
          resource_type |-> Get(metadata, "resourceType", JStr("Unknown")),
          resource_group |-> Get(metadata, "resourceGroup", JStr("Unknown")),
          resource_id |-> Get(metadata, "resourceId", JStr("")),
          recommendation_type |-> Get(props, "recommendationTypeId", JStr("")),
          last_updated |-> Get(props, "lastUpdated", JStr("")),
          automated_fix_available |->
              check_automated_fix(Get(props, "recommendationTypeId", JStr(""))) ]

\* mutant of process_items: the first failing record ends the batch
RECURSIVE process_items_abort(_)
process_items_abort(seq) ==
    IF Len(seq) = 0 THEN <<>>
    ELSE IF Raises(Head(seq)) THEN <<>>
         ELSE <<processed_rec(Head(seq))>> \o process_items_abort(Tail(seq))

\* the for loop of lines 55-79 over the elements the iteration yields
RECURSIVE process_items(_)
process_items(seq) ==
    IF Len(seq) = 0 THEN <<>>
    ELSE IF Raises(Head(seq)) THEN process_items(Tail(seq))
         ELSE <<processed_rec(Head(seq))>> \o process_items(Tail(seq))

\* `for rec in raw_recommendations` raises TypeError (outside the try block of
\* the loop body) when the parsed value is null, a number or a boolean; a list
\* yields its elements, a dict its keys and a string its characters
Iterable(raw_recommendations) == raw_recommendations.t \in {"list", "obj", "str"}

process_recommendations(raw_recommendations) ==
    process_items(raw_recommendations.items)

(***************************************************************************)
(* Inputs: the arguments and what the two external commands answer.        *)
(***************************************************************************)
Formats == {"json", "summary", "claude"}

ArgSets == [format : Formats, high_priority_only : BOOLEAN, automated_only : BOOLEAN]

\* a raw record with every accessed field present
FullRec(id, impact, type_id, resource_type) ==
    JObj([ id |-> JStr(id),
           properties |-> JObj([
               category |-> JStr("Security"),
               impact |-> JStr(impact),
               shortDescription |-> JObj([ problem |-> JStr("Problem of " \o id),
                                           solution |-> JStr("Solution of " \o id) ]),
               resourceMetadata |-> JObj([ resourceType |-> JStr(resource_type),
                                           resourceGroup |-> JStr("rg-prod"),
                                           resourceId |-> JStr("/subscriptions/s/" \o id) ]),
               recommendationTypeId |-> JStr(type_id),
               lastUpdated |-> JStr("2024-01-01T00:00:00Z") ]) ])

KnownTypeId == "b14a3c4e-f6c8-4b21-9e3a-3c4b5f6e7a8b"
OtherKnownTypeId == "f6a7b8c9-2345-6789-0123-456789abcdef"
UnknownTypeId == "00000000-0000-0000-0000-000000000000"

RecHighFix == FullRec("kv", "High", KnownTypeId, "Microsoft.KeyVault/vaults")
RecLowFix == FullRec("st", "Low", OtherKnownTypeId, "Microsoft.Storage/storageAccounts")
RecLowNoFix == FullRec("vm", "Low", UnknownTypeId, "Microsoft.Compute/virtualMachines")
\* only the impact is present: every other field is defaulted
RecMediumOnly == JObj([ properties |-> JObj([ impact |-> JStr("Medium") ]) ])
\* {}: every field is defaulted
RecEmpty == EmptyDict
\* "properties": null
RecNullProps == JObj([ id |-> JStr("np"), properties |-> JNull ])
\* an array element that is a string
RecScalar == JStr("not a record")
\* "resourceMetadata": "n/a"
RecBadMetadata ==
    JObj([ id |-> JStr("bm"),
           properties |-> JObj([ impact |-> JStr("High"),
                                 resourceMetadata |-> JStr("n/a") ]) ])
\* "recommendationTypeId": []
RecListTypeId ==
    JObj([ id |-> JStr("lt"),
           properties |-> JObj([ impact |-> JStr("High"),
                                 recommendationTypeId |-> JArr ]) ])
\* fields present with the value null
RecNullFields ==
    JObj([ id |-> JNull,
           properties |-> JObj([ category |-> JNull,
                                 impact |-> JNull,
                                 resourceMetadata |-> JObj([ resourceType |-> JNull ]),
                                 recommendationTypeId |-> JNull ]) ])
\* a High record whose problem text is null
RecHighNullProblem ==
    JObj([ id |-> JStr("hn"),
           properties |-> JObj([ impact |-> JStr("High"),
                                 shortDescription |-> JObj([ problem |-> JNull ]) ]) ])
\* "impact": []
RecListImpact ==
    JObj([ id |-> JStr("li"),
           properties |-> JObj([ impact |-> JArr ]) ])

\* the records the answers of a run are made of
RunRecs == { RecHighFix, RecLowFix, RecMediumOnly, RecNullProps,
             RecHighNullProblem, RecListImpact }

\* the records the normalizer is exercised with
RawRecs == RunRecs \cup { RecLowNoFix, RecEmpty, RecScalar, RecBadMetadata,
                          RecListTypeId, RecNullFields }

\* every sequence over S of length at most n
SeqsUpTo(S, n) == UNION { [1..k -> S] : k \in 0..n }

\* resource types of the "high_fix" answers: seven types, with equal and
\* different numbers of records
PatternResourceTypes ==
    << "Microsoft.KeyVault/vaults", "Microsoft.Sql/servers",
       "Microsoft.Storage/storageAccounts", "Microsoft.Sql/servers",
       "Microsoft.Network/networkSecurityGroups", "Microsoft.Storage/storageAccounts",
       "Microsoft.Compute/virtualMachines", "Microsoft.Web/sites",
       "Microsoft.Storage/storageAccounts", "Microsoft.ContainerService/managedClusters",
       "Microsoft.Sql/servers", "Microsoft.KeyVault/vaults" >>

PatternResourceType(i) == PatternResourceTypes[((i - 1) % Len(PatternResourceTypes)) + 1]

\* texts of the "alternate" answers: with a five-character id in front the
\* problem has 80 characters and the solution 100, with a six-character id
\* 81 and 101
ProblemTail ==
    ": public network access is enabled and no firewall rule restricts the sourc"
SolutionTail ==
    ": disable public network access, add a private endpoint and allow only the trusted address rang"

\* rec with the given problem and solution texts
WithTexts(rec, problem, solution) ==
    [rec EXCEPT !.f.properties.f.shortDescription =
                    JObj([ problem |-> JStr(problem), solution |-> JStr(solution) ])]

\* the i-th record of a patterned answer; the ids tell the positions apart
PatternRec(pattern, i) ==
    LET id == "rec-" \o ToString(i) IN
    CASE pattern = "high_fix" ->
            FullRec(id, "High", KnownTypeId, PatternResourceType(i))
      [] pattern = "alternate" ->
            IF i % 2 = 1
            THEN WithTexts(FullRec(id, "High", UnknownTypeId, "Microsoft.Sql/servers"),
                           id \o ProblemTail, id \o SolutionTail)
            ELSE FullRec(id, "Low", OtherKnownTypeId, "Microsoft.Storage/storageAccounts")
      [] pattern = "mixed" ->
            IF i % 4 = 1 THEN FullRec(id, "High", KnownTypeId, "Microsoft.Network/nsg")
            ELSE IF i % 4 = 2 THEN RecNullProps
            ELSE IF i % 4 = 3 THEN FullRec(id, "Medium", UnknownTypeId, "Microsoft.Sql/servers")
            ELSE FullRec(id, "Low", OtherKnownTypeId, "Microsoft.Network/nsg")

Patterns == {"high_fix", "alternate", "mixed"}

PatternLists ==
    { [i \in 1..n |-> PatternRec(p, i)] : n \in (MaxShort + 1)..MaxLong, p \in Patterns }

\* json.loads() results that are no array
TopNull == [t |-> "null", items |-> <<>>]
TopNumber == [t |-> "num", items |-> <<>>]
\* {"error": ..., "message": ...}: iterating a dict yields its keys
TopObject == [t |-> "obj", items |-> <<JStr("error"), JStr("message")>>]
\* "ok": iterating a string yields its characters
TopString == [t |-> "str", items |-> <<JStr("o"), JStr("k")>>]
NonLists == {TopNull, TopNumber, TopObject, TopString}

\* what json.loads() returns for the outputs of `az advisor recommendation list`
RunParsed == NonLists \cup { JList(q) : q \in SeqsUpTo(RunRecs, MaxShort) \cup PatternLists }

\* values of recommendationTypeId: every key of the table, identifiers that are
\* no key (the empty string, another case, a prefix, another GUID) and values
\* that are no string
ProbeTypeIds ==
    { JStr(id) : id \in AutomatedFixIds }
    \cup { JStr(""), JStr(UnknownTypeId), JStr("B14A3C4E-F6C8-4B21-9E3A-3C4B5F6E7A8B"),
           JStr("b14a3c4e"), JNull, JNum }

\* one-record answers, one per probed identifier
TypeIdProbes ==
    { <<JObj([ id |-> JStr("probe"),
               properties |-> JObj([ impact |-> JStr("Low"),
                                     recommendationTypeId |-> v ]) ])>> : v \in ProbeTypeIds }

NormalizerInputs ==
    NonLists \cup { JList(q) : q \in SeqsUpTo(RawRecs, MaxShort) \cup PatternLists
                                    \cup TypeIdProbes }

\* the outcome of one `az advisor recommendation list`: a non-zero exit
\* (CalledProcessError), text json.loads() rejects (JSONDecodeError), or text
\* it parses
ListOutcomes ==
    { [status |-> "exit_nonzero", parsed |-> TopNull],
      [status |-> "bad_json", parsed |-> TopNull] }
    \cup { [status |-> "ok", parsed |-> v] : v \in RunParsed }

\* the outcome of `az account show`: a non-zero exit or the id on stdout
\* (stdout holds the id as line 27 keeps it, after strip())
SubscriptionIds == {"sub-1"}
AccountOutcomes ==
    { [status |-> "exit_nonzero", stdout |-> ""] }
    \cup { [status |-> "ok", stdout |-> id] : id \in SubscriptionIds }

(***************************************************************************)
(* get_security_recommendations (lines 32-49) on one outcome of the        *)
(* external command.  raised: an exception leaves the function (the        *)
(* TypeError of iterating a value that is not iterable is caught by        *)
(* neither except clause).                                                 *)
(***************************************************************************)
RECURSIVE process_diagnostics(_)
process_diagnostics(seq) ==
    IF Len(seq) = 0 THEN <<>>
    ELSE (IF Raises(Head(seq)) THEN <<"Error processing recommendation">> ELSE <<>>)
         \o process_diagnostics(Tail(seq))

get_security_recommendations(o) ==
    IF o.status = "exit_nonzero"
    THEN [raised |-> FALSE, recs |-> <<>>, diag |-> <<"Error fetching recommendations">>]
    ELSE IF o.status = "bad_json"
    THEN [raised |-> FALSE, recs |-> <<>>, diag |-> <<"Error parsing JSON">>]
    ELSE IF ~Iterable(o.parsed)
    THEN [raised |-> TRUE, recs |-> <<>>, diag |-> <<>>]
    ELSE [raised |-> FALSE,
          recs |-> process_recommendations(o.parsed),
          diag |-> process_diagnostics(o.parsed.items)]

(***************************************************************************)
(* Helpers of the aggregation.                                             *)
(***************************************************************************)
Min(a, b) == IF a <= b THEN a ELSE b

\* seq[:n]
Take(seq, n) == SubSeq(seq, 1, Min(n, Len(seq)))

\* the conditions of the list comprehensions of lines 106, 111 and 140
IsHigh(rec) == rec.impact = JStr("High")
IsHighOrMedium(rec) == rec.impact \in {JStr("High"), JStr("Medium")}
IsAutomated(rec) == rec.automated_fix_available

\* mutant of CountKey: a key seen again is stored with the count 1
CountKey_reset(counts, key) ==
    IF \E i \in 1..Len(counts) : counts[i].k = key
    THEN [i \in 1..Len(counts) |->
            IF counts[i].k = key THEN [k |-> key, v |-> 1] ELSE counts[i]]
    ELSE Append(counts, [k |-> key, v |-> 1])

\* counts[key] = counts.get(key, 0) + 1 on a dict kept in insertion order
CountKey(counts, key) ==
    IF \E i \in 1..Len(counts) : counts[i].k = key
    THEN [i \in 1..Len(counts) |->
            IF counts[i].k = key THEN [k |-> key, v |-> counts[i].v + 1] ELSE counts[i]]
    ELSE Append(counts, [k |-> key, v |-> 1])

\* the counting loops of lines 118-127 over the values of one field
RECURSIVE CountValues(_, _)
CountValues(counts, values) ==
    IF Len(values) = 0 THEN counts
    ELSE CountValues(CountKey(counts, Head(values)), Tail(values))

\* dict.get(key, default) on such a dict
DictGet(counts, key, default) ==
    IF \E i \in 1..Len(counts) : counts[i].k = key
    THEN (CHOOSE e \in {counts[i] : i \in 1..Len(counts)} : e.k = key).v
    ELSE default

Impacts(recs) == [i \in 1..Len(recs) |-> recs[i].impact]
ResourceTypes(recs) == [i \in 1..Len(recs) |-> recs[i].resource_type]

\* a dict key that cannot be hashed raises TypeError in the counting loops
CountingRaises(recs) ==
    \E i \in 1..Len(recs) : ~Hashable(recs[i].impact) \/ ~Hashable(recs[i].resource_type)

(***************************************************************************)
(* generate_security_report (lines 113-145).                               *)
(***************************************************************************)
\* [...][:10] of line 141 and automated_fixes[:5] of line 142
HighPriorityCap == 10
AutomatedFixCap == 5

NoReport ==
    [ built |-> FALSE, subscription_id |-> "", total_recommendations |-> 0,
      impact_breakdown |-> <<>>, resource_type_breakdown |-> <<>>,
      automated_fix_candidates |-> 0, high_priority_recommendations |-> <<>>,
      automated_fix_ready |-> <<>> ]

\* mutant of high_priority_recommendations: the filter of the High/Medium view
high_priority_recommendations_medium(recs) ==
    Take(SelectSeq(recs, IsHighOrMedium), HighPriorityCap)

\* the rows of the report that are taken from `recommendations`
high_priority_recommendations(recs) == Take(SelectSeq(recs, IsHigh), HighPriorityCap)

\* mutant of automated_fix_candidates: the cap of the report applied to the view
automated_fix_candidates_capped(recs) == Take(SelectSeq(recs, IsAutomated), AutomatedFixCap)

\* get_automated_fix_candidates, line 111, on what its own fetch returned
automated_fix_candidates(recs) == SelectSeq(recs, IsAutomated)

\* mutant of high_priority_view: only the High records are kept
high_priority_view_high(recs) == SelectSeq(recs, IsHigh)

\* get_high_priority_recommendations, line 106, on what its own fetch returned
high_priority_view(recs) == SelectSeq(recs, IsHighOrMedium)

\* mutant of automated_fix_ready: the cap of the High rows is used
automated_fix_ready_ten(automated_fixes) == Take(automated_fixes, HighPriorityCap)

\* line 142
automated_fix_ready(automated_fixes) == Take(automated_fixes, AutomatedFixCap)

\* the dict of lines 132-143; automated_fixes comes from the fetch of line 130
BuildReport(sub, recs, impacts, resource_types, automated_fixes) ==
    [ built |-> TRUE,
      subscription_id |-> sub,
      total_recommendations |-> Len(recs),
      impact_breakdown |-> impacts,
      resource_type_breakdown |-> resource_types,
      automated_fix_candidates |-> Len(automated_fixes),
      high_priority_recommendations |-> high_priority_recommendations(recs),
      automated_fix_ready |-> automated_fix_ready(automated_fixes) ]

(***************************************************************************)
(* The renderers: the summary lines of lines 221-223 and the narrative     *)
(* document of generate_claude_code_summary (lines 147-195).               *)
(***************************************************************************)
ProblemWidth == 80
SolutionWidth == 100
BreakdownRows == 5

SummaryLines(rep) ==
    << [label |-> "Total Recommendations", n |-> rep.total_recommendations],
       [label |-> "High Impact", n |-> DictGet(rep.impact_breakdown, JStr("High"), 0)],
       [label |-> "Automated Fix Ready", n |-> rep.automated_fix_candidates] >>

\* x[:n] raises TypeError unless x is a string or a list
Sliceable(x) == x.t \in {"str", "list"}

\* x[:n] of a string; the list of the model is empty and is its own prefix
Slice(x, n) == IF x.t = "str" THEN JStr(SubSeq(x.s, 1, Min(n, Len(x.s)))) ELSE x

SummaryRaises(rep) ==
    \E i \in 1..Len(rep.high_priority_recommendations) :
        \/ ~Sliceable(rep.high_priority_recommendations[i].problem)
        \/ ~Sliceable(rep.high_priority_recommendations[i].solution)

\* mutant of IssueBlock: the solution is cut at the width of the problem
IssueBlock_one_width(i, rec) ==
    [ number |-> i,
      problem |-> Slice(rec.problem, ProblemWidth),
      impact |-> rec.impact,
      resource_group |-> rec.resource_group,
      resource_type |-> rec.resource_type,
      solution |-> Slice(rec.solution, ProblemWidth),
      auto_fix |-> rec.automated_fix_available ]

\* one "### i. ..." block of lines 163-170
IssueBlock(i, rec) ==
    [ number |-> i,
      problem |-> Slice(rec.problem, ProblemWidth),
      impact |-> rec.impact,
      resource_group |-> rec.resource_group,
      resource_type |-> rec.resource_type,
      solution |-> Slice(rec.solution, SolutionWidth),
      auto_fix |-> rec.automated_fix_available ]

\* mutant of RankByCount: entries with equal counts end up in reverse order
RankByCount_unstable(items, i) ==
    Cardinality({j \in 1..Len(items) :
                    \/ items[j].v > items[i].v
                    \/ items[j].v = items[i].v /\ j > i}) + 1

\* sorted(items, key=count, reverse=True) is stable: an entry comes after
\* the entries with a larger count and the earlier ones with the same count
RankByCount(items, i) ==
    Cardinality({j \in 1..Len(items) :
                    \/ items[j].v > items[i].v
                    \/ items[j].v = items[i].v /\ j < i}) + 1

SortByCountDesc(items) ==
    [p \in 1..Len(items) |->
        items[CHOOSE i \in 1..Len(items) : RankByCount(items, i) = p]]

generate_claude_code_summary(rep) ==
    [ total |-> rep.total_recommendations,
      high |-> DictGet(rep.impact_breakdown, JStr("High"), 0),
      medium |-> DictGet(rep.impact_breakdown, JStr("Medium"), 0),
      low |-> DictGet(rep.impact_breakdown, JStr("Low"), 0),
      automated_fix_ready |-> rep.automated_fix_candidates,
      issues |-> [i \in 1..Len(rep.high_priority_recommendations) |->
                    IssueBlock(i, rep.high_priority_recommendations[i])],
      ready_for_automation |-> Len(rep.automated_fix_ready),
      resource_breakdown |-> Take(SortByCountDesc(rep.resource_type_breakdown),
                                  BreakdownRows),
      subscription |-> rep.subscription_id ]

NothingPrinted == [kind |-> "none", value |-> <<>>]

(***************************************************************************)
(* The run: main() (lines 197-227).                                        *)
(***************************************************************************)
NoOutcome == [status |-> "none", parsed |-> TopNull]
NoFetch == [raised |-> FALSE, recs |-> <<>>, diag |-> <<>>]

Init ==
    /\ args \in ArgSets
    /\ pc = "construct"
    /\ subscription_id = ""
    /\ calls = <<>>
    /\ outcome = NoOutcome
    /\ fetched = NoFetch
    /\ recommendations = <<>>
    /\ impact_counts = <<>>
    /\ resource_type_counts = <<>>
    /\ all_recs = <<>>
    /\ report = NoReport
    /\ data = <<>>
    /\ diagnostics = <<>>
    /\ printed = NothingPrinted
    /\ exit_code = -1

Call(cmd, status) == [cmd |-> cmd, status |-> status]

\* an exception nobody catches: traceback on stderr, exit status 1
Uncaught ==
    /\ pc' = "exited"
    /\ exit_code' = 1

\* main() returns: exit status 0
Finish ==
    /\ pc' = "exited"
    /\ exit_code' = 0

\* mutant of GetSubscriptionId: the diagnostic is printed and the run goes on
GetSubscriptionId_NoExit ==
    /\ pc = "construct"
    /\ \E o \in AccountOutcomes :
         /\ calls' = Append(calls, Call("account_show", o.status))
         /\ subscription_id' = o.stdout
         /\ diagnostics' = IF o.status = "ok" THEN diagnostics
                           ELSE Append(diagnostics, "Error getting subscription ID")
         /\ pc' = "main"
         /\ UNCHANGED exit_code
    /\ UNCHANGED <<args, outcome, fetched, recommendations, impact_counts,
                   resource_type_counts, all_recs, report, data, printed>>

\* AzureSecurityMonitor() of line 208: __init__ and _get_subscription_id
GetSubscriptionId ==
    /\ pc = "construct"
    /\ \E o \in AccountOutcomes :
         /\ calls' = Append(calls, Call("account_show", o.status))
         /\ IF o.status = "ok"
            THEN /\ subscription_id' = o.stdout
                 /\ pc' = "main"
                 /\ UNCHANGED <<diagnostics, exit_code>>
            ELSE /\ diagnostics' = Append(diagnostics, "Error getting subscription ID")
                 /\ pc' = "exited"
                 /\ exit_code' = 1
                 /\ UNCHANGED subscription_id
    /\ UNCHANGED <<args, outcome, fetched, recommendations, impact_counts,
                   resource_type_counts, all_recs, report, data, printed>>

\* lines 211-212 and 217: json with --high-priority-only
JsonHighPriorityOnly ==
    /\ pc = "main"
    /\ args.format = "json"
    /\ args.high_priority_only
    /\ \E o \in ListOutcomes :
         LET got == get_security_recommendations(o) IN
         /\ calls' = Append(calls, Call("advisor_list", o.status))
         /\ diagnostics' = diagnostics \o got.diag
         /\ IF got.raised
            THEN /\ Uncaught
                 /\ UNCHANGED <<all_recs, data, printed>>
            ELSE /\ all_recs' = got.recs
                 /\ data' = high_priority_view(got.recs)
                 /\ printed' = [kind |-> "json_list", value |-> high_priority_view(got.recs)]
                 /\ Finish
    /\ UNCHANGED <<args, subscription_id, outcome, fetched, recommendations,
                   impact_counts, resource_type_counts, report>>

\* lines 213-214 and 217: json with --automated-only and no --high-priority-only
JsonAutomatedOnly ==
    /\ pc = "main"
    /\ args.format = "json"
    /\ ~args.high_priority_only
    /\ args.automated_only
    /\ \E o \in ListOutcomes :
         LET got == get_security_recommendations(o) IN
         /\ calls' = Append(calls, Call("advisor_list", o.status))
         /\ diagnostics' = diagnostics \o got.diag
         /\ IF got.raised
            THEN /\ Uncaught
                 /\ UNCHANGED <<all_recs, data, printed>>
            ELSE /\ all_recs' = got.recs
                 /\ data' = automated_fix_candidates(got.recs)
                 /\ printed' = [kind |-> "json_list",
                                value |-> automated_fix_candidates(got.recs)]
                 /\ Finish
    /\ UNCHANGED <<args, subscription_id, outcome, fetched, recommendations,
                   impact_counts, resource_type_counts, report>>

\* the three callers of generate_security_report: lines 216, 220 and 226 (149)
WantsReport ==
    \/ args.format # "json"
    \/ ~args.high_priority_only /\ ~args.automated_only

\* generate_security_report, lines 115-127: the fetch and the two counting loops
ReportCount ==
    /\ pc = "main"
    /\ WantsReport
    /\ \E o \in ListOutcomes :
         LET got == get_security_recommendations(o) IN
         /\ calls' = Append(calls, Call("advisor_list", o.status))
         /\ diagnostics' = diagnostics \o got.diag
         /\ IF got.raised \/ CountingRaises(got.recs)
            THEN /\ Uncaught
                 /\ UNCHANGED <<recommendations, impact_counts, resource_type_counts>>
            ELSE /\ recommendations' = got.recs
                 /\ impact_counts' = CountValues(<<>>, Impacts(got.recs))
                 /\ resource_type_counts' = CountValues(<<>>, ResourceTypes(got.recs))
                 /\ pc' = "report_fixes"
                 /\ UNCHANGED exit_code
    /\ UNCHANGED <<args, subscription_id, outcome, fetched, all_recs, report, data,
                   printed>>

\* generate_security_report, lines 130-145: get_automated_fix_candidates
\* fetches again, then the report is put together
ReportBuild ==
    /\ pc = "report_fixes"
    /\ \E o \in ListOutcomes :
         LET got == get_security_recommendations(o) IN
         /\ calls' = Append(calls, Call("advisor_list", o.status))
         /\ diagnostics' = diagnostics \o got.diag
         /\ IF got.raised
            THEN /\ Uncaught
                 /\ UNCHANGED <<all_recs, report>>
            ELSE /\ all_recs' = got.recs
                 /\ report' = BuildReport(subscription_id, recommendations, impact_counts,
                                          resource_type_counts,
                                          automated_fix_candidates(got.recs))
                 /\ pc' = "render"
                 /\ UNCHANGED exit_code
    /\ UNCHANGED <<args, subscription_id, outcome, fetched, recommendations,
                   impact_counts, resource_type_counts, data, printed>>

\* line 217 on the report
PrintJsonReport ==
    /\ pc = "render"
    /\ args.format = "json"
    /\ printed' = [kind |-> "json_report", value |-> report]
    /\ Finish
    /\ UNCHANGED <<args, subscription_id, calls, outcome, fetched, recommendations,
                   impact_counts, resource_type_counts, all_recs, report, data,
                   diagnostics>>

\* mutant of PrintSummary: --automated-only changes the third number
PrintSummary_flagged ==
    /\ pc = "render"
    /\ args.format = "summary"
    /\ printed' =
         [kind |-> "summary",
          value |-> IF args.automated_only
                    THEN [SummaryLines(report) EXCEPT
                             ![3].n = Len(report.automated_fix_ready)]
                    ELSE SummaryLines(report)]
    /\ Finish
    /\ UNCHANGED <<args, subscription_id, calls, outcome, fetched, recommendations,
                   impact_counts, resource_type_counts, all_recs, report, data,
                   diagnostics>>

\* lines 221-223
PrintSummary ==
    /\ pc = "render"
    /\ args.format = "summary"
    /\ printed' = [kind |-> "summary", value |-> SummaryLines(report)]
    /\ Finish
    /\ UNCHANGED <<args, subscription_id, calls, outcome, fetched, recommendations,
                   impact_counts, resource_type_counts, all_recs, report, data,
                   diagnostics>>

\* mutant of PrintClaude: the document is printed and main() does not return
PrintClaude_suspended ==
    /\ pc = "render"
    /\ args.format = "claude"
    /\ IF SummaryRaises(report)
       THEN /\ Uncaught
            /\ UNCHANGED printed
       ELSE /\ printed' = [kind |-> "claude", value |-> generate_claude_code_summary(report)]
            /\ UNCHANGED <<pc, exit_code>>
    /\ UNCHANGED <<args, subscription_id, calls, outcome, fetched, recommendations,
                   impact_counts, resource_type_counts, all_recs, report, data,
                   diagnostics>>

\* lines 226-227 with lines 151-195
PrintClaude ==
    /\ pc = "render"
    /\ args.format = "claude"
    /\ IF SummaryRaises(report)
       THEN /\ Uncaught
            /\ UNCHANGED printed
       ELSE /\ printed' = [kind |-> "claude", value |-> generate_claude_code_summary(report)]
            /\ Finish
    /\ UNCHANGED <<args, subscription_id, calls, outcome, fetched, recommendations,
                   impact_counts, resource_type_counts, all_recs, report, data,
                   diagnostics>>

Next ==
    \/ GetSubscriptionId
    \/ JsonHighPriorityOnly
    \/ JsonAutomatedOnly
    \/ ReportCount
    \/ ReportBuild
    \/ PrintJsonReport
    \/ PrintSummary
    \/ PrintClaude

Spec == Init /\ [][Next]_vars

(***************************************************************************)
(* The fetcher on its own: get_security_recommendations applied once to    *)
(* each outcome of the external command, normalizer included.              *)
(***************************************************************************)
FetchOutcomes ==
    { [status |-> "exit_nonzero", parsed |-> TopNull],
      [status |-> "bad_json", parsed |-> TopNull] }
    \cup { [status |-> "ok", parsed |-> v] : v \in NormalizerInputs }

InitFetch ==
    /\ args = [format |-> "claude", high_priority_only |-> FALSE, automated_only |-> FALSE]
    /\ pc = "fetch"
    /\ subscription_id \in SubscriptionIds
    /\ calls = <<Call("account_show", "ok")>>
    /\ outcome \in FetchOutcomes
    /\ fetched = NoFetch
    /\ recommendations = <<>>
    /\ impact_counts = <<>>
    /\ resource_type_counts = <<>>
    /\ all_recs = <<>>
    /\ report = NoReport
    /\ data = <<>>
    /\ diagnostics = <<>>
    /\ printed = NothingPrinted
    /\ exit_code = -1

FetchOnce ==
    /\ pc = "fetch"
    /\ calls' = Append(calls, Call("advisor_list", outcome.status))
    /\ fetched' = get_security_recommendations(outcome)
    /\ diagnostics' = diagnostics \o get_security_recommendations(outcome).diag
    /\ pc' = "fetched"
    /\ UNCHANGED <<args, subscription_id, outcome, recommendations, impact_counts,
                   resource_type_counts, all_recs, report, data, printed, exit_code>>

NextFetch == FetchOnce

SpecFetch == InitFetch /\ [][NextFetch]_vars

(***************************************************************************)
(* Vocabulary of the properties.                                           *)
(***************************************************************************)
Exited == pc = "exited"
Resolved == Len(calls) >= 1 /\ calls[1].status = "ok"
LookupFailed == Len(calls) >= 1 /\ calls[1].status # "ok"
ListCalls == SelectSeq(calls, LAMBDA c : c.cmd = "advisor_list")
SomeListCallFailed ==
    \E i \in 1..Len(calls) :
        calls[i].cmd = "advisor_list" /\ calls[i].status \in {"exit_nonzero", "bad_json"}

\* the positions of seq whose element satisfies P, and the j-th of them
Positions(seq, P(_)) == { i \in 1..Len(seq) : P(seq[i]) }
NthOf(S, j) == CHOOSE i \in S : Cardinality({ k \in S : k < i }) = j - 1

\* out is the first `cap` elements of seq that satisfy P, in the order of seq
FirstMatching(out, seq, P(_), cap) ==
    /\ Len(out) = Min(cap, Cardinality(Positions(seq, P)))
    /\ \A j \in 1..Len(out) : out[j] = seq[NthOf(Positions(seq, P), j)]

\* out is every element of seq that satisfies P, in the order of seq
AllMatching(out, seq, P(_)) == FirstMatching(out, seq, P, Len(seq))

(***************************************************************************)
(* C1: if the subscription-id lookup fails, the run ends with exit code 1, *)
(* prints no report in any format and never issues a recommendation-list   *)
(* call.                                                                   *)
(***************************************************************************)
C1_LookupFailureIsFatal ==
    LookupFailed =>
        /\ Exited
        /\ exit_code = 1
        /\ printed = NothingPrinted
        /\ ~report.built
        /\ Len(calls) = 1
        /\ Len(ListCalls) = 0

C1_Witness == LookupFailed /\ Exited /\ args.format = "json"

(***************************************************************************)
(* C2: whenever the subscription id is resolved the run ends with exit     *)
(* code 0, for every format and every outcome of the recommendation-list   *)
(* call; the exit code is 1 only when the id cannot be resolved.           *)
(***************************************************************************)
C2_ExitZeroWhenResolved ==
    Exited => (exit_code = 0 <=> Resolved) /\ (exit_code = 1 <=> LookupFailed)

(***************************************************************************)
(* C3: if a recommendation-list call fails during a run, the report has    *)
(* total_recommendations = 0, empty breakdowns, automated-fix count 0 and  *)
(* empty top lists, and the exit code is 0.                                *)
(***************************************************************************)
C3_FailedFetchGivesEmptyReport ==
    (report.built /\ SomeListCallFailed) =>
        /\ report.total_recommendations = 0
        /\ report.impact_breakdown = <<>>
        /\ report.resource_type_breakdown = <<>>
        /\ report.automated_fix_candidates = 0
        /\ report.high_priority_recommendations = <<>>
        /\ report.automated_fix_ready = <<>>
        /\ (Exited => exit_code = 0)

(***************************************************************************)
(* C4: in every report the automated-fix candidate count is the number of  *)
(* records with automated_fix_available among the normalized records that  *)
(* total_recommendations and the breakdowns are computed from, so it never *)
(* exceeds total_recommendations.                                          *)
(***************************************************************************)
C4_FixCountOfSameRecords ==
    report.built =>
        /\ report.total_recommendations = Len(recommendations)
        /\ report.automated_fix_candidates =
               Cardinality(Positions(recommendations, IsAutomated))
        /\ report.automated_fix_candidates <= report.total_recommendations

(***************************************************************************)
(* C5: a run whose subscription id resolves issues exactly two external    *)
(* process invocations, the subscription lookup first and then one         *)
(* recommendation-list call, for every format and flag combination; a      *)
(* failed recommendation-list call is never followed by another one.       *)
(***************************************************************************)
C5_TwoInvocations ==
    /\ Len(calls) >= 1 => calls[1].cmd = "account_show"
    /\ \A i \in 2..Len(calls) : calls[i].cmd = "advisor_list"
    /\ (Exited /\ Resolved) => Len(calls) = 2
    /\ \A i \in 1..Len(calls) :
         (calls[i].cmd = "advisor_list" /\ calls[i].status # "ok") => i = Len(calls)

(***************************************************************************)
(* C6: the recommendation fetcher returns an empty sequence, without       *)
(* propagating an error, whenever the external call exits non-zero or its  *)
(* output is malformed: text that is not valid JSON, or valid JSON that    *)
(* is not a list (null, a number, an object).                              *)
(***************************************************************************)
Malformed(o) == o.status = "bad_json" \/ (o.status = "ok" /\ o.parsed.t # "list")

C6_FetcherDegradesToEmpty ==
    (pc = "fetched" /\ (outcome.status = "exit_nonzero" \/ Malformed(outcome))) =>
        /\ ~fetched.raised
        /\ fetched.recs = <<>>

(***************************************************************************)
(* C7: a field missing from a raw record holds its documented default in   *)
(* the normalized record ("Unknown", "No description available", "No       *)
(* solution available" or the empty string), and no normalized record      *)
(* carries a null value in a field.                                        *)
(***************************************************************************)
FieldValues(rec) ==
    { rec.id, rec.category, rec.impact, rec.problem, rec.solution, rec.resource_type,
      rec.resource_group, rec.resource_id, rec.recommendation_type, rec.last_updated }

Missing(obj, key) == key \notin DOMAIN obj.f

\* the normalized record `rec` has the documented default wherever the raw
\* record `rawrec` (one that does not raise) lacks the field
DefaultsWhereMissing(rawrec, rec) ==
    LET props == IF Missing(rawrec, "properties") THEN EmptyDict
                 ELSE rawrec.f["properties"]
        metadata == IF Missing(props, "resourceMetadata") THEN EmptyDict
                    ELSE props.f["resourceMetadata"]
        short_desc == IF Missing(props, "shortDescription") THEN EmptyDict
                      ELSE props.f["shortDescription"]
    IN  /\ Missing(rawrec, "id") => rec.id = JStr("")
        /\ Missing(props, "category") => rec.category = JStr("Unknown")
        /\ Missing(props, "impact") => rec.impact = JStr("Unknown")
        /\ Missing(short_desc, "problem") => rec.problem = JStr("No description available")
        /\ Missing(short_desc, "solution") => rec.solution = JStr("No solution available")
        /\ Missing(metadata, "resourceType") => rec.resource_type = JStr("Unknown")
        /\ Missing(metadata, "resourceGroup") => rec.resource_group = JStr("Unknown")
        /\ Missing(metadata, "resourceId") => rec.resource_id = JStr("")
        /\ Missing(props, "recommendationTypeId") => rec.recommendation_type = JStr("")
        /\ Missing(props, "lastUpdated") => rec.last_updated = JStr("")

Survives(rec) == ~Raises(rec)

C7_DefaultsAndNeverNull ==
    (pc = "fetched" /\ outcome.status = "ok" /\ outcome.parsed.t = "list") =>
        LET items == outcome.parsed.items
            good == Positions(items, Survives)
        IN  /\ Len(fetched.recs) = Cardinality(good)
            /\ \A j \in 1..Len(fetched.recs) :
                 /\ DefaultsWhereMissing(items[NthOf(good, j)], fetched.recs[j])
                 /\ JNull \notin FieldValues(fetched.recs[j])

(***************************************************************************)
(* C8: normalization is per-record tolerant and order preserving: a record *)
(* that raises is skipped (with one diagnostic) without aborting the       *)
(* batch, and the output is exactly the normalized non-failing records in  *)
(* input order, so its length is the input length minus the number of      *)
(* failing records.                                                        *)
(***************************************************************************)
C8_SkipsFailingKeepsOrder ==
    (pc = "fetched" /\ outcome.status = "ok" /\ outcome.parsed.t = "list") =>
        LET items == outcome.parsed.items
            good == Positions(items, Survives)
            bad == Positions(items, Raises)
        IN  /\ ~fetched.raised
            /\ Len(fetched.recs) = Len(items) - Cardinality(bad)
            /\ Len(fetched.diag) = Cardinality(bad)
            /\ \A j \in 1..Len(fetched.recs) :
                 fetched.recs[j] = processed_rec(items[NthOf(good, j)])

\* a failing record between two records that are kept
C8_Witness ==
    /\ pc = "fetched"
    /\ outcome.status = "ok"
    /\ outcome.parsed.t = "list"
    /\ \E i, j, k \in 1..Len(outcome.parsed.items) :
         /\ i < j /\ j < k
         /\ Survives(outcome.parsed.items[i])
         /\ Raises(outcome.parsed.items[j])
         /\ Survives(outcome.parsed.items[k])
    /\ Len(fetched.recs) >= 2

(***************************************************************************)
(* C9: high_priority_recommendations of the report holds only records with *)
(* impact "High", at most 10 of them, and is exactly the first 10 (or all, *)
(* when fewer) High records of the normalized list in their order.         *)
(***************************************************************************)
C9_TopTenHigh ==
    report.built =>
        /\ \A i \in 1..Len(report.high_priority_recommendations) :
             report.high_priority_recommendations[i].impact = JStr("High")
        /\ Len(report.high_priority_recommendations) <= 10
        /\ FirstMatching(report.high_priority_recommendations, recommendations, IsHigh, 10)

\* more High records than the cap
C9_Witness ==
    /\ report.built
    /\ Cardinality(Positions(recommendations, IsHigh)) > 10
    /\ Len(report.high_priority_recommendations) = 10

(***************************************************************************)
(* C10 as stated: automated_fix_ready of the report holds only records     *)
(* with automated_fix_available, at most 5, the first 5 (or all) of them   *)
(* in order; json mode with --automated-only prints every such record of   *)
(* the normalized list, in order, with no cap.                             *)
(***************************************************************************)
FixReadyIsFirstFive ==
    report.built =>
        /\ \A i \in 1..Len(report.automated_fix_ready) :
             report.automated_fix_ready[i].automated_fix_available
        /\ Len(report.automated_fix_ready) <= 5
        /\ FirstMatching(report.automated_fix_ready, all_recs, IsAutomated, 5)

PrintsAutomatedOnlyView ==
    /\ printed.kind = "json_list"
    /\ AllMatching(printed.value, all_recs, IsAutomated)

RECURSIVE SumCounts(_)
SumCounts(counts) ==
    IF Len(counts) = 0 THEN 0 ELSE Head(counts).v + SumCounts(Tail(counts))

\* `breakdown` has exactly one entry per value of `values`, counting its occurrences
IsBreakdownOf(breakdown, values) ==
    /\ \A i, j \in 1..Len(breakdown) : breakdown[i].k = breakdown[j].k => i = j
    /\ { breakdown[i].k : i \in 1..Len(breakdown) } = { values[i] : i \in 1..Len(values) }
    /\ \A i \in 1..Len(breakdown) :
         /\ breakdown[i].v >= 1
         /\ breakdown[i].v = Cardinality({ n \in 1..Len(values) : values[n] = breakdown[i].k })

C11_BreakdownsSumToTotal ==
    report.built =>
        /\ SumCounts(report.impact_breakdown) = report.total_recommendations
        /\ SumCounts(report.resource_type_breakdown) = report.total_recommendations
        /\ IsBreakdownOf(report.impact_breakdown,
                         [i \in 1..Len(recommendations) |-> recommendations[i].impact])
        /\ IsBreakdownOf(report.resource_type_breakdown,
                         [i \in 1..Len(recommendations) |-> recommendations[i].resource_type])

\* several impact levels, one of them more than once
C11_Witness ==
    /\ report.built
    /\ Len(report.impact_breakdown) >= 2
    /\ \E i \in 1..Len(report.impact_breakdown) : report.impact_breakdown[i].v >= 2

(***************************************************************************)
(* C12: the automated-fix flag is true exactly for the six recommendation  *)
(* type identifiers of the lookup table and false for every other          *)
(* identifier, the empty string of an absent identifier included; every    *)
(* normalized record's automated_fix_available is the table lookup of its  *)
(* own recommendation_type.                                                *)
(***************************************************************************)
InLookupTable(value) ==
    value \in { JStr("b14a3c4e-f6c8-4b21-9e3a-3c4b5f6e7a8b"),
                JStr("a1b2c3d4-e5f6-7890-abcd-ef1234567890"),
                JStr("c3d4e5f6-1234-5678-9abc-def123456789"),
                JStr("e5f6a7b8-9012-3456-7890-abc123456789"),
                JStr("f6a7b8c9-2345-6789-0123-456789abcdef"),
                JStr("a7b8c9d0-3456-7890-1234-56789abcdefg") }

C12_FlagIsTableLookup ==
    pc = "fetched" =>
        \A i \in 1..Len(fetched.recs) :
            /\ fetched.recs[i].automated_fix_available
                   <=> InLookupTable(fetched.recs[i].recommendation_type)
            /\ fetched.recs[i].recommendation_type = JStr("")
                   => ~fetched.recs[i].automated_fix_available

\* a batch with a record of the table and a record without identifier
C12_Witness ==
    /\ pc = "fetched"
    /\ \E i, j \in 1..Len(fetched.recs) :
         /\ fetched.recs[i].automated_fix_available
         /\ fetched.recs[j].recommendation_type = JStr("")
         /\ ~fetched.recs[j].automated_fix_available

(***************************************************************************)
(* C13: in json mode with --high-priority-only, with or without            *)
(* --automated-only, the output is the highPriorityOnly view: exactly the  *)
(* normalized records whose impact is "High" or "Medium", in original      *)
(* order and untruncated, instead of the full report.                      *)
(***************************************************************************)
HighOrMediumImpact(rec) == rec.impact = JStr("High") \/ rec.impact = JStr("Medium")

C13_HighPriorityOnlyView ==
    (Exited /\ exit_code = 0 /\ args.format = "json" /\ args.high_priority_only) =>
        /\ printed.kind = "json_list"
        /\ ~report.built
        /\ AllMatching(printed.value, all_recs, HighOrMediumImpact)

\* both flags set; High and Medium records printed, others left out
C13_Witness ==
    /\ Exited
    /\ args.format = "json" /\ args.high_priority_only /\ args.automated_only
    /\ printed.kind = "json_list"
    /\ \E i, j \in 1..Len(printed.value) :
         /\ printed.value[i].impact = JStr("High")
         /\ printed.value[j].impact = JStr("Medium")
    /\ Len(printed.value) < Len(all_recs)

(***************************************************************************)
(* C14: the summary format prints exactly three lines whose numbers match  *)
(* the normalized input: "Total Recommendations: N" with N the number of   *)
(* normalized records, "High Impact: H" with H the number of records with  *)
(* impact "High" (0 when there is none) and "Automated Fix Ready: A" with  *)
(* A the number of records with automated_fix_available, uncapped.         *)
(***************************************************************************)
HighImpact(rec) == rec.impact = JStr("High")
FixAvailable(rec) == rec.automated_fix_available

C14_SummaryMatchesInput ==
    printed.kind = "summary" =>
        printed.value =
            << [label |-> "Total Recommendations", n |-> Len(recommendations)],
               [label |-> "High Impact",
                n |-> Cardinality(Positions(recommendations, HighImpact))],
               [label |-> "Automated Fix Ready",
                n |-> Cardinality(Positions(recommendations, FixAvailable))] >>

(***************************************************************************)
(* C15: the resource breakdown of the narrative format lists at most 5     *)
(* resource types, sorted by descending count; resource types with equal   *)
(* counts appear in the order in which they were first seen in the input,  *)
(* and no listed type has a smaller count than an unlisted one.            *)
(***************************************************************************)
C15_TopFiveResourceTypes ==
    printed.kind = "claude" =>
        LET rows == printed.value.resource_breakdown
            Types == { recommendations[i].resource_type : i \in 1..Len(recommendations) }
            Occurrences(type) ==
                { i \in 1..Len(recommendations) : recommendations[i].resource_type = type }
            CountOf(type) == Cardinality(Occurrences(type))
            FirstSeen(type) ==
                CHOOSE i \in Occurrences(type) : \A j \in Occurrences(type) : i <= j
            Listed == { rows[i].k : i \in 1..Len(rows) }
        IN  /\ Len(rows) <= 5
            /\ Len(rows) = Min(5, Cardinality(Types))
            /\ Cardinality(Listed) = Len(rows)
            /\ \A i \in 1..Len(rows) :
                 rows[i].k \in Types /\ rows[i].v = CountOf(rows[i].k)
            /\ \A i, j \in 1..Len(rows) :
                 i < j => \/ rows[i].v > rows[j].v
                          \/ /\ rows[i].v = rows[j].v
                             /\ FirstSeen(rows[i].k) < FirstSeen(rows[j].k)
            /\ \A type \in Types \ Listed :
                 \A i \in 1..Len(rows) : rows[i].v >= CountOf(type)

\* more than five resource types, equal counts among the listed ones and at
\* the cut
C15_Witness ==
    /\ printed.kind = "claude"
    /\ Len(report.resource_type_breakdown) > 5
    /\ \E i, j \in 1..Len(printed.value.resource_breakdown) :
         /\ i < j
         /\ printed.value.resource_breakdown[i].v = printed.value.resource_breakdown[j].v
    /\ \E e \in { report.resource_type_breakdown[i] :
                    i \in 1..Len(report.resource_type_breakdown) } :
         /\ \A i \in 1..Len(printed.value.resource_breakdown) :
              printed.value.resource_breakdown[i].k # e.k
         /\ e.v = printed.value.resource_breakdown[5].v

(***************************************************************************)
(* C16: the narrative format emits one per-issue block for each record of  *)
(* the report's high_priority_recommendations (at most 10 blocks, numbered *)
(* 1..k in list order); the problem text shown is the first 80 characters  *)
(* of the record's problem (the whole text when shorter), the solution     *)
(* text the first 100 characters of its solution, and the automation       *)
(* marker is the positive one exactly when automated_fix_available.        *)
(***************************************************************************)
FirstChars(text, n) == IF Len(text) <= n THEN text ELSE SubSeq(text, 1, n)

C16_IssueBlocks ==
    printed.kind = "claude" =>
        LET blocks == printed.value.issues
            top == report.high_priority_recommendations
        IN  /\ Len(blocks) = Len(top)
            /\ Len(blocks) <= 10
            /\ \A i \in 1..Len(blocks) :
                 /\ blocks[i].number = i
                 /\ top[i].problem.t = "str" =>
                        blocks[i].problem = JStr(FirstChars(top[i].problem.s, 80))
                 /\ top[i].solution.t = "str" =>
                        blocks[i].solution = JStr(FirstChars(top[i].solution.s, 100))
                 /\ blocks[i].auto_fix <=> top[i].automated_fix_available

\* a block whose texts are cut and a block whose texts have exactly the widths
C16_Witness ==
    /\ printed.kind = "claude"
    /\ \E i, j \in 1..Len(printed.value.issues) :
         /\ Len(report.high_priority_recommendations[i].problem.s) > 80
         /\ Len(report.high_priority_recommendations[i].solution.s) > 100
         /\ Len(printed.value.issues[i].problem.s) = 80
         /\ Len(printed.value.issues[i].solution.s) = 100
         /\ Len(report.high_priority_recommendations[j].problem.s) = 80
         /\ printed.value.issues[j].problem = report.high_priority_recommendations[j].problem

(***************************************************************************)
(* C17: the count printed in the "Ready for Automation" section of the     *)
(* narrative format is the number of normalized records with               *)
(* automated_fix_available, and so equals the "Automated Fix Ready" number *)
(* of the overview of the same document, for any number of such records.   *)
(***************************************************************************)
C17_ReadyCountIsFixCount ==
    printed.kind = "claude" =>
        /\ printed.value.ready_for_automation =
               Cardinality(Positions(all_recs, FixAvailable))
        /\ printed.value.ready_for_automation = printed.value.automated_fix_ready

(***************************************************************************)
(* C18: every run terminates provided each external process invocation it  *)
(* makes completes or fails: there is no loop over external calls, no      *)
(* retry and no suspension, so after the last external call the tool       *)
(* prints its output (or its fatal diagnostic) and exits.                  *)
(***************************************************************************)
\* the position of the run, counted in steps of main()
Progress(position) ==
    CASE position = "construct" -> 0
      [] position = "main" -> 1
      [] position = "report_fixes" -> 2
      [] position = "render" -> 3
      [] position = "exited" -> 4

\* A run that has not exited can take a step, whatever the external commands
\* answered so far, and every step moves the run forward: no step is repeated
\* and none leads back.  A run whose enabled steps are taken (each external
\* invocation completes or fails) therefore exits after at most four steps.
C18_Terminates ==
    /\ [](Exited \/ ENABLED Next)
    /\ [][Progress(pc') > Progress(pc)]_vars

\* a run that made every external call of the longest path and has exited
C18_Witness ==
    /\ Exited
    /\ Len(calls) = 3
    /\ printed.kind = "claude"

(***************************************************************************)
(* C19: in every report the two capped lists agree with the counts of the  *)
(* same report: automated_fix_ready has min(5, automated_fix_candidates)   *)
(* rows and high_priority_recommendations has min(10, h) rows, where h is  *)
(* impact_breakdown["High"], taken as 0 when the key is absent.            *)
(***************************************************************************)
C19_CappedListsMatchCounts ==
    report.built =>
        /\ Len(report.automated_fix_ready) = Min(5, report.automated_fix_candidates)
        /\ Len(report.high_priority_recommendations) =
               Min(10, DictGet(report.impact_breakdown, JStr("High"), 0))

\* a report in which both caps cut: more than 5 candidates, more than 10 High
C19_Witness ==
    /\ report.built
    /\ report.automated_fix_candidates > 5
    /\ DictGet(report.impact_breakdown, JStr("High"), 0) > 10

(***************************************************************************)
(* C20: in the summary and claude formats the flags --high-priority-only   *)
(* and --automated-only have no effect: the run makes the external calls   *)
(* of the full report, computes no filtered view, and what it prints is    *)
(* the rendering of the full report, which is determined by the answers of *)
(* the external commands alone.                                            *)
(***************************************************************************)
\* the report as a function of the subscription and of the two answers
ReportOfAnswers ==
    [ built |-> TRUE,
      subscription_id |-> subscription_id,
      total_recommendations |-> Len(recommendations),
      impact_breakdown |-> CountValues(<<>>, Impacts(recommendations)),
      resource_type_breakdown |-> CountValues(<<>>, ResourceTypes(recommendations)),
      automated_fix_candidates |-> Cardinality(Positions(all_recs, FixAvailable)),
      high_priority_recommendations |->
          Take(SelectSeq(recommendations, HighImpact), 10),
      automated_fix_ready |-> Take(SelectSeq(all_recs, FixAvailable), 5) ]

C20_FlagsOnlyAffectJson ==
    /\ (args.format # "json" /\ Len(calls) >= 2) => calls[2].cmd = "advisor_list"
    /\ (args.format # "json" /\ Len(calls) >= 3) => calls[3].cmd = "advisor_list"
    /\ args.format # "json" => data = <<>>
    /\ printed.kind # "none" =>
           \/ args.format = "json"
           \/ /\ printed.kind = args.format
              /\ Len(calls) = 3
              /\ report = ReportOfAnswers
              /\ printed.kind = "summary" =>
                     printed.value = SummaryLines(ReportOfAnswers)
              /\ printed.kind = "claude" =>
                     printed.value = generate_claude_code_summary(ReportOfAnswers)

\* a summary printed by a run that was given both flags, where the flags
\* would have made a difference: the views are shorter than the input
C20_Witness ==
    /\ printed.kind = "summary"
    /\ args.high_priority_only
    /\ args.automated_only
    /\ Len(recommendations) > Cardinality(Positions(recommendations, HighOrMediumImpact))
    /\ Cardinality(Positions(all_recs, FixAvailable)) > 5

====
